---- MODULE Spec2Model ----
(***************************************************************************)
(* The Kaplan-Meier estimator of survive/nonparametric/kaplan_meier.py:    *)
(* the configuration setters, __init__, fit and _km_var_boot.              *)
(*                                                                         *)
(* Numbers.  numpy's float64 values are modelled as extended rationals:    *)
(* a pair <<n, d>> with d > 0 and gcd(n, d) = 1 is the number n/d, and     *)
(* <<0,0>>, <<1,0>>, <<-1,0>> are NaN, +inf and -inf.  +, -, *, / are      *)
(* exact and follow the IEEE-754 rules for NaN and the infinities that the *)
(* code relies on (x/0, 0/0, 0*inf, inf-inf).  Rounding, overflow to inf   *)
(* and underflow to 0 are not modelled, and every zero is +0 (the code     *)
(* only ever divides by the zeros y-d, S**2, 1-S and log(1), all +0).      *)
(* sqrt, exp, log, power and arcsin/sin have no exact rational values;     *)
(* each is replaced by a rational function with the same domain, the same  *)
(* fixed points, the same monotonicity and the same inverse relations      *)
(* (see the comments at Sqrt, Exp, Log, Power, ArcsinSqrt, SinSquared).    *)
(***************************************************************************)
EXTENDS Integers, Sequences, FiniteSets, TLC

VARIABLES
    constructed,          \* an estimator object exists (__init__ returned)
    conf_type,            \* self._conf_type
    conf_level,           \* self._conf_level
    var_type,             \* self._var_type
    tie_break,            \* self._tie_break
    n_boot,               \* self._n_boot
    random_state,         \* self._random_state: the generator's current state
    data,                 \* self._data (<<>> before the first fit)
    estimate_,            \* self.estimate_
    estimate_var_,        \* self.estimate_var_
    estimate_ci_lower_,   \* self.estimate_ci_lower_
    estimate_ci_upper_,   \* self.estimate_ci_upper_
    fitted,               \* self.fitted
    fit_with,             \* history: the generator state with which the fit that
                          \* wrote the lists began, and whether it ran to its end
    last                  \* the last call made on the estimator and its outcome

vars == <<constructed, conf_type, conf_level, var_type, tie_break, n_boot,
          random_state, data, estimate_, estimate_var_, estimate_ci_lower_,
          estimate_ci_upper_, fitted, fit_with, last>>

----------------------------------------------------------------------------
(* Bounds of the model *)

\* largest number of observations in a data set
MaxObs == 3
\* observed times are 1..MaxTime
MaxTime == 3
\* entry times are 0..MaxEntry
MaxEntry == 2
\* group labels are 1..MaxGroups
MaxGroups == 2
\* n_boot arguments are 0..MaxBoot
MaxBoot == 2
\* random_state seeds are 0..MaxSeed
MaxSeed == 1
MaxRefitObs == 2
MaxRefitTime == 2

----------------------------------------------------------------------------
(* Extended rational arithmetic (numpy float64 with NaN and infinities) *)

NaN == <<0, 0>>
PosInf == <<1, 0>>
NegInf == <<-1, 0>>

Abs(n) == IF n < 0 THEN -n ELSE n

Sign(n) == IF n < 0 THEN -1 ELSE IF n > 0 THEN 1 ELSE 0

RECURSIVE GCD(_, _)
GCD(a, b) == IF b = 0 THEN a ELSE GCD(b, a % b)

\* the rational n/d (d # 0) in lowest terms with a positive denominator
Rat(n, d) ==
    LET g == GCD(Abs(n), Abs(d))
        s == IF d < 0 THEN -1 ELSE 1
    IN  <<s * (n \div g), Abs(d) \div g>>

FromInt(n) == <<n, 1>>
Zero == <<0, 1>>
One == <<1, 1>>

IsNaN(x) == x = NaN
IsInf(x) == x[2] = 0 /\ x[1] # 0
IsFinite(x) == x[2] > 0

Neg(x) == <<-x[1], x[2]>>

Add(x, y) ==
    IF IsNaN(x) \/ IsNaN(y) THEN NaN
    ELSE IF IsInf(x) /\ IsInf(y) THEN (IF x = y THEN x ELSE NaN)
    ELSE IF IsInf(x) THEN x
    ELSE IF IsInf(y) THEN y
    ELSE Rat(x[1] * y[2] + y[1] * x[2], x[2] * y[2])

Sub(x, y) == Add(x, Neg(y))

Mul(x, y) ==
    IF IsNaN(x) \/ IsNaN(y) THEN NaN
    ELSE IF IsInf(x) \/ IsInf(y)
         THEN (IF x[1] = 0 \/ y[1] = 0 THEN NaN
               ELSE <<Sign(x[1]) * Sign(y[1]), 0>>)
    ELSE Rat(x[1] * y[1], x[2] * y[2])

\* x / y: finite/0 is +-inf, 0/0 and inf/inf are NaN, finite/inf is 0
Div(x, y) ==
    IF IsNaN(x) \/ IsNaN(y) THEN NaN
    ELSE IF IsInf(y) THEN (IF IsInf(x) THEN NaN ELSE Zero)
    ELSE IF IsInf(x) THEN <<Sign(x[1]) * (IF y[1] < 0 THEN -1 ELSE 1), 0>>
    ELSE IF y[1] = 0 THEN (IF x[1] = 0 THEN NaN ELSE <<Sign(x[1]), 0>>)
    ELSE Rat(x[1] * y[2], x[2] * y[1])

\* x < y, x <= y, x == y as IEEE comparisons: false when either side is NaN
Lt(x, y) ==
    /\ ~IsNaN(x) /\ ~IsNaN(y)
    /\ IF IsInf(x) \/ IsInf(y)
       THEN (x = NegInf /\ y # NegInf) \/ (y = PosInf /\ x # PosInf)
       ELSE x[1] * y[2] < y[1] * x[2]

Eq(x, y) == ~IsNaN(x) /\ ~IsNaN(y) /\ x = y

Leq(x, y) == Lt(x, y) \/ Eq(x, y)

\* np.maximum / np.minimum: NaN if either argument is NaN
Maximum(x, y) == IF IsNaN(x) \/ IsNaN(y) THEN NaN ELSE IF Lt(x, y) THEN y ELSE x

Minimum(x, y) == IF IsNaN(x) \/ IsNaN(y) THEN NaN ELSE IF Lt(y, x) THEN y ELSE x

Square(x) == Mul(x, x)

(* np.sqrt.  NaN for a negative argument.  On the finite non-negative      *)
(* numbers the stand-in is 2x/(1+x) (the harmonic mean of 1 and x, a lower *)
(* bound of the root): non-negative, strictly increasing, 0 at 0, 1 at 1.  *)
Sqrt(x) ==
    IF IsNaN(x) \/ x[1] < 0 THEN NaN
    ELSE IF IsInf(x) THEN PosInf
    ELSE Div(Mul(FromInt(2), x), Add(One, x))

(* np.exp.  exp(-inf) = 0, exp(inf) = inf.  On the finite numbers the      *)
(* stand-in is 1+x for x >= 0 and 1/(1-x) for x < 0: positive, strictly    *)
(* increasing, 1 at 0, and Exp(-x) = 1/Exp(x) exactly.                     *)
Exp(x) ==
    IF IsNaN(x) THEN NaN
    ELSE IF x = PosInf THEN PosInf
    ELSE IF x = NegInf THEN Zero
    ELSE IF x[1] >= 0 THEN Add(One, x)
    ELSE Div(One, Sub(One, x))

(* np.log.  log(0) = -inf, log of a negative number is NaN.  The stand-in  *)
(* is the inverse of Exp: 1 - 1/x on (0,1], x - 1 on [1,inf).              *)
Log(x) ==
    IF IsNaN(x) \/ x[1] < 0 THEN NaN
    ELSE IF x = PosInf THEN PosInf
    ELSE IF x[1] = 0 THEN NegInf
    ELSE IF Leq(x, One) THEN Sub(One, Div(One, x))
    ELSE Sub(x, One)

(* b ** e for a base b >= 0 (the survival estimate), with the special      *)
(* cases of IEEE pow: 1**e = 1 and b**0 = 1 for every e and b, NaN         *)
(* otherwise propagates, 0**e is 0 for e > 0 and inf for e < 0; for        *)
(* 0 < b # 1 finite it is Exp(e * Log(b)).                                 *)
Power(b, e) ==
    IF b = One \/ e = Zero THEN One
    ELSE IF IsNaN(b) \/ IsNaN(e) \/ b[1] < 0 THEN NaN
    ELSE IF b = Zero THEN (IF e[1] > 0 THEN Zero ELSE PosInf)
    ELSE Exp(Mul(e, Log(b)))

\* np.pi / 2 as a rational
HalfPi == <<11, 7>>

(* np.arcsin(np.sqrt(p)): NaN outside [0,1]; on [0,1] the stand-in is the  *)
(* increasing map p * pi/2 onto [0, pi/2].                                 *)
ArcsinSqrt(p) ==
    IF IsNaN(p) \/ ~Leq(Zero, p) \/ ~Leq(p, One) THEN NaN
    ELSE Mul(p, HalfPi)

(* np.sin(x) ** 2: the inverse of ArcsinSqrt on [0, pi/2], extended evenly *)
(* to [-pi/2, 0] and by reflection to [pi/2, pi]; NaN for +-inf.           *)
SinSquared(x) ==
    IF ~IsFinite(x) THEN NaN
    ELSE LET a == <<Abs(x[1]), x[2]>>
         IN  IF Leq(a, HalfPi) THEN Div(a, HalfPi)
             ELSE IF Leq(a, Mul(FromInt(2), HalfPi))
                  THEN Div(Sub(Mul(FromInt(2), HalfPi), a), HalfPi)
             ELSE NaN

(* st.norm.ppf(p) at the two tail probabilities the model uses:            *)
(* ppf(1/40) = -1.96 (stand-in -2) and ppf(1/4) = -0.674 (stand-in -2/3).  *)
NormPpf(p) == IF p = <<1, 40>> THEN <<-2, 1>> ELSE <<-2, 3>>

----------------------------------------------------------------------------
(* Sequences of numbers *)

\* elementwise application
MapSeq(Op(_), s) == [j \in 1..Len(s) |-> Op(s[j])]

\* np.cumprod
RECURSIVE CumProdTo(_, _)
CumProdTo(s, j) == IF j = 1 THEN s[1] ELSE Mul(CumProdTo(s, j - 1), s[j])

CumProd(s) == [j \in 1..Len(s) |-> CumProdTo(s, j)]

\* np.cumsum
RECURSIVE CumSumTo(_, _)
CumSumTo(s, j) == IF j = 1 THEN s[1] ELSE Add(CumSumTo(s, j - 1), s[j])

CumSum(s) == [j \in 1..Len(s) |-> CumSumTo(s, j)]

----------------------------------------------------------------------------
(* Survival data: what fit reads from the SurvivalData object *)

Observations ==
    { o \in [time : 1..MaxTime, status : {0, 1}, entry : 0..MaxEntry,
             group : 1..MaxGroups] : o.entry <= o.time }

\* position of an observation in the order in which a data set lists them
ObsKey(o) ==
    ((o.time * 2 + (1 - o.status)) * (MaxEntry + 1) + o.entry) * (MaxGroups + 1)
        + o.group

\* the sequences of n observations from U, listed by increasing time
RECURSIVE ListsOf(_, _)
ListsOf(U, n) ==
    IF n = 0 THEN {<<>>}
    ELSE UNION { { Append(s, o) :
                     o \in { u \in U : \A i \in 1..(n - 1) :
                                          ObsKey(s[i]) <= ObsKey(u) } }
                 : s \in ListsOf(U, n - 1) }

\* the data sets of 1..n observations from U
DataOver(U, n) == UNION { ListsOf(U, m) : m \in 1..n }

\* the elements of a finite set of integers in increasing order
RECURSIVE SortedSeq(_)
SortedSeq(S) ==
    IF S = {} THEN <<>>
    ELSE LET m == CHOOSE x \in S : \A y \in S : x <= y
         IN  <<m>> \o SortedSeq(S \ {m})

\* data.group_labels
group_labels(sd) == SortedSeq({ sd[i].group : i \in 1..Len(sd) })

\* the observations of every group up to the one asked for
GroupObsUpTo(sd, label) == SelectSeq(sd, LAMBDA o : o.group <= label)

\* the observations of one group: data.time[ind], data.status[ind], data.entry[ind]
GroupObs(sd, label) == SelectSeq(sd, LAMBDA o : o.group = label)

\* np.unique(time[status == 1]): the distinct true event times, increasing
EventTimes(obs) ==
    SortedSeq({ obs[i].time : i \in { m \in 1..Len(obs) : obs[m].status = 1 } })

\* number of events at time t
CountEvents(obs, t) ==
    Cardinality({ m \in 1..Len(obs) : obs[m].time = t /\ obs[m].status = 1 })

\* size of the risk set at time t
CountAtRisk(obs, t) ==
    Cardinality({ m \in 1..Len(obs) : obs[m].entry <= t /\ obs[m].time >= t })

\* data.events[group].n_events
n_events(sd, label) ==
    LET obs == GroupObs(sd, label)
        ev == EventTimes(obs)
    IN  [j \in 1..Len(ev) |-> CountEvents(obs, ev[j])]

\* data.events[group].n_at_risk
n_at_risk(sd, label) ==
    LET obs == GroupObs(sd, label)
        ev == EventTimes(obs)
    IN  [j \in 1..Len(ev) |-> CountAtRisk(obs, ev[j])]

----------------------------------------------------------------------------
(* The random number generator (numpy.random.RandomState) *)

(* The generator is a deterministic stream fixed by its seed.  The         *)
(* Mersenne Twister is replaced by a full-period linear congruential       *)
(* generator modulo 16; a draw advances the state by one step and returns  *)
(* a third of the state reduced modulo n.                                  *)
RngSeed(seed) == (11 * seed + 2) % 16

RngStep(x) == (5 * x + 3) % 16

RECURSIVE RngSkip(_, _)
RngSkip(x, m) == IF m = 0 THEN x ELSE RngSkip(RngStep(x), m - 1)

\* random_state.choice(n, size=size, replace=True), as 1-based indices
RECURSIVE RngChoice(_, _, _)
RngChoice(x, n, size) ==
    IF size = 0 THEN <<>>
    ELSE <<((RngStep(x) \div 3) % n) + 1>> \o RngChoice(RngStep(x), n, size - 1)

----------------------------------------------------------------------------
(* _km_var_boot: the bootstrap variance estimate *)

RECURSIVE SumTo(_, _)
SumTo(s, j) == IF j = 0 THEN Zero ELSE Add(SumTo(s, j - 1), s[j])

\* ndarray.var(ddof=1) of one column: sum of squared deviations / (B - 1)
SampleVar(v) ==
    LET B == Len(v)
        mean == Div(SumTo(v, B), FromInt(B))
        dev2 == [i \in 1..B |-> Square(Sub(v[i], mean))]
    IN  Div(SumTo(dev2, B), FromInt(B - 1))

\* the survival curve of one resample over the original event times, before
\* the entries with an empty risk set are overwritten
BootCurve(boot, events) ==
    CumProd([j \in 1..Len(events) |->
                Sub(One, Div(FromInt(CountEvents(boot, events[j])),
                             FromInt(CountAtRisk(boot, events[j]))))])

\* survival_boot[i, r == 0] = 0.
ForceZero(curve, boot, events) ==
    [j \in 1..Len(events) |->
        IF CountAtRisk(boot, events[j]) = 0 THEN Zero ELSE curve[j]]

\* survival_boot[i]: the i-th resample's curve; x is the generator's state
\* when _km_var_boot is entered
survival_boot(obs, events, x, i) ==
    LET n == Len(obs)
        ind_boot == RngChoice(RngSkip(x, (i - 1) * n), n, n)
        boot == [m \in 1..n |-> obs[ind_boot[m]]]
    IN  ForceZero(BootCurve(boot, events), boot, events)

km_var_boot(sd, index, x, nb) ==
    LET obs == GroupObs(sd, group_labels(sd)[index])
        events == EventTimes(obs)
        curves == [i \in 1..nb |-> survival_boot(obs, events, x, i)]
    IN  [j \in 1..Len(events) |-> SampleVar([i \in 1..nb |-> curves[i][j]])]

\* the generator's state after _km_var_boot: nb resamples of n draws each
RngAfterBoot(sd, index, x, nb) ==
    RngSkip(x, nb * Len(GroupObs(sd, group_labels(sd)[index])))

----------------------------------------------------------------------------
(* fit: the computation for one group *)

ConfTypes == {"arcsin", "linear", "log", "log-log", "logit"}
VarTypes == {"aalen-johansen", "bootstrap", "greenwood"}
TieBreaks == {"continuous", "discrete"}

\* faulty variant: the running sum of the factors instead of their running product
ProductLimitSummed(d, y) ==
    CumSum([j \in 1..Len(d) |-> Sub(One, Div(FromInt(d[j]), FromInt(y[j])))])

\* faulty variant: the factors themselves, not accumulated
ProductLimitFactors(d, y) ==
    [j \in 1..Len(d) |-> Sub(One, Div(FromInt(d[j]), FromInt(y[j])))]

\* np.cumprod(1. - d / y)
ProductLimit(d, y) ==
    CumProd([j \in 1..Len(d) |-> Sub(One, Div(FromInt(d[j]), FromInt(y[j])))])

\* np.cumsum(d / y / (y - d))
Sigma2Greenwood(d, y) ==
    CumSum([j \in 1..Len(d) |->
              Div(Div(FromInt(d[j]), FromInt(y[j])), FromInt(y[j] - d[j]))])

\* np.cumsum(d / (y ** 2))
Sigma2Discrete(d, y) ==
    CumSum([j \in 1..Len(d) |-> Div(FromInt(d[j]), FromInt(y[j] * y[j]))])

\* faulty variant: the sum runs over 1..d[j] instead of 0..d[j]-1
RECURSIVE TieIncrementShifted(_, _)
TieIncrementShifted(yj, dj) ==
    IF dj = 0 THEN Zero
    ELSE Add(TieIncrementShifted(yj, dj - 1),
             Div(One, FromInt((yj - dj) * (yj - dj))))

\* inc[j] = np.sum(1 / (y[j] - np.arange(d[j])) ** 2)
RECURSIVE TieIncrement(_, _)
TieIncrement(yj, dj) ==
    IF dj = 0 THEN Zero
    ELSE Add(TieIncrement(yj, dj - 1),
             Div(One, FromInt((yj - (dj - 1)) * (yj - (dj - 1)))))

\* np.cumsum(inc)
Sigma2Continuous(d, y) ==
    CumSum([j \in 1..Len(d) |-> TieIncrement(y[j], d[j])])

\* whether fit's variance branches handle the stored configuration
VarianceHandled(vt, tb) ==
    vt \in {"bootstrap", "greenwood"}
        \/ (vt = "aalen-johansen" /\ tb \in {"discrete", "continuous"})

\* sigma2 of the greenwood and aalen-johansen branches
Sigma2(vt, tb, d, y) ==
    IF vt = "greenwood" THEN Sigma2Greenwood(d, y)
    ELSE IF tb = "discrete" THEN Sigma2Discrete(d, y)
    ELSE Sigma2Continuous(d, y)

\* the variance appended to estimate_var_ for the group
GroupVariance(vt, tb, sd, index, x, nb, S, d, y) ==
    IF vt = "bootstrap" THEN km_var_boot(sd, index, x, nb)
    ELSE LET s2 == Sigma2(vt, tb, d, y)
         IN  [j \in 1..Len(S) |-> Mul(Square(S[j]), s2[j])]

\* the sigma2 the confidence intervals use
GroupSigma2(vt, tb, var, S, d, y) ==
    IF vt = "bootstrap" THEN [j \in 1..Len(S) |-> Div(var[j], Square(S[j]))]
    ELSE Sigma2(vt, tb, d, y)

\* z = st.norm.ppf((1 - self.conf_level) / 2)
Quantile(level) == NormPpf(Div(Sub(One, level), FromInt(2)))

\* the lower bound of one confidence interval before clamping
RawLower(ct, S, var, s2, z) ==
    CASE ct = "linear" -> Add(S, Mul(z, Sqrt(var)))
      [] ct = "log" -> Mul(S, Exp(Mul(z, Sqrt(s2))))
      [] ct = "log-log" ->
            Power(S, Exp(Div(Mul(z, Sqrt(s2)), Log(S))))
      [] ct = "logit" ->
            LET odds == Div(S, Sub(One, S))
                c == Div(Mul(z, Sqrt(s2)), Sub(One, S))
            IN  Sub(One, Div(One, Add(One, Mul(odds, Exp(c)))))
      [] ct = "arcsin" ->
            LET odds == Div(S, Sub(One, S))
                c == Mul(<<1, 2>>, Mul(z, Sqrt(Mul(odds, s2))))
            IN  SinSquared(Maximum(Zero, Add(ArcsinSqrt(S), c)))

\* the upper bound of one confidence interval before clamping
RawUpper(ct, S, var, s2, z) ==
    CASE ct = "linear" -> Sub(S, Mul(z, Sqrt(var)))
      [] ct = "log" -> Mul(S, Exp(Neg(Mul(z, Sqrt(s2)))))
      [] ct = "log-log" ->
            Power(S, Exp(Neg(Div(Mul(z, Sqrt(s2)), Log(S)))))
      [] ct = "logit" ->
            LET odds == Div(S, Sub(One, S))
                c == Div(Mul(z, Sqrt(s2)), Sub(One, S))
            IN  Sub(One, Div(One, Add(One, Mul(odds, Exp(Neg(c))))))
      [] ct = "arcsin" ->
            LET odds == Div(S, Sub(One, S))
                c == Mul(<<1, 2>>, Mul(z, Sqrt(Mul(odds, s2))))
            IN  SinSquared(Minimum(HalfPi, Sub(ArcsinSqrt(S), c)))

\* np.maximum(lower, 0.)
ClampLower(lower) == Maximum(lower, Zero)

\* faulty variant: the upper bound is not cut at 1
ClampUpperMissing(upper) == upper

\* np.minimum(upper, 1.)
ClampUpper(upper) == Minimum(upper, One)

\* faulty variant: the entries at a zero estimate are left as computed
MaskZeroMissing(S, a) == a

\* ind_zero = (self.estimate_[i] == 0.); a[ind_zero] = np.nan
MaskZero(S, a) == [j \in 1..Len(a) |-> IF Eq(S[j], Zero) THEN NaN ELSE a[j]]

(* One pass of the loop body, in the order of the code.  Each step hands   *)
(* what it computed to the next one: the risk table (d, y), the survival   *)
(* estimate S, the variance var, then sigma2 and z, and last the clamped   *)
(* and masked arrays the pass leaves in the output lists.                  *)

\* lines 332-384: the intervals, the clamping and the masking
PassIntervals(ct, S, var, s2, z, rng) ==
    [survival |-> S,
     variance |-> MaskZero(S, var),
     lower |-> MaskZero(S, [j \in 1..Len(S) |->
                  ClampLower(RawLower(ct, S[j], var[j], s2[j], z))]),
     upper |-> MaskZero(S, [j \in 1..Len(S) |->
                  ClampUpper(RawUpper(ct, S[j], var[j], s2[j], z))]),
     rng |-> rng]

\* lines 300-301, 305-319 and 333: sigma2 and z
PassSigma2(ct, level, vt, tb, S, d, y, var, rng) ==
    PassIntervals(ct, S, var, GroupSigma2(vt, tb, var, S, d, y),
                  Quantile(level), rng)

\* lines 294-330: the variance
PassVariance(ct, level, vt, tb, nb, sd, index, x, d, y, S) ==
    PassSigma2(ct, level, vt, tb, S, d, y,
               GroupVariance(vt, tb, sd, index, x, nb, S, d, y),
               IF vt = "bootstrap" THEN RngAfterBoot(sd, index, x, nb) ELSE x)

\* line 288: the survival estimate
PassSurvival(ct, level, vt, tb, nb, sd, index, x, d, y) ==
    PassVariance(ct, level, vt, tb, nb, sd, index, x, d, y, ProductLimit(d, y))

(* The pass for the group at position index: the four arrays it leaves in  *)
(* the output lists and the generator's state after it.  x is the          *)
(* generator's state when the pass begins.                                 *)
GroupPass(ct, level, vt, tb, nb, sd, index, x) ==
    PassSurvival(ct, level, vt, tb, nb, sd, index, x,
                 n_events(sd, group_labels(sd)[index]),
                 n_at_risk(sd, group_labels(sd)[index]))

----------------------------------------------------------------------------
(* fit: the loop over the groups *)

\* the output lists left as they are
ListsKept(x) ==
    [survival |-> estimate_, variance |-> estimate_var_,
     lower |-> estimate_ci_lower_, upper |-> estimate_ci_upper_, rng |-> x]

\* the output lists and the generator before the loop: lines 277-280
EmptyLists(x) ==
    [survival |-> <<>>, variance |-> <<>>, lower |-> <<>>, upper |-> <<>>,
     rng |-> x]

\* the four appends of one pass
AppendPass(before, pass) ==
    [survival |-> Append(before.survival, pass.survival),
     variance |-> Append(before.variance, pass.variance),
     lower |-> Append(before.lower, pass.lower),
     upper |-> Append(before.upper, pass.upper),
     rng |-> pass.rng]

\* the pass for group number count, begun with the lists and generator before
NextPass(ct, level, vt, tb, nb, sd, count, before) ==
    AppendPass(before, GroupPass(ct, level, vt, tb, nb, sd, count, before.rng))

\* the lists after the passes for the groups 1..count, appended in order
RECURSIVE FitLoop(_, _, _, _, _, _, _, _)
FitLoop(ct, level, vt, tb, nb, sd, count, x) ==
    IF count = 0 THEN EmptyLists(x)
    ELSE NextPass(ct, level, vt, tb, nb, sd, count,
                  FitLoop(ct, level, vt, tb, nb, sd, count - 1, x))

\* the pass that has appended to estimate_ only
HalfPass(before, S) == [before EXCEPT !.survival = Append(before.survival, S)]

(* The lists when an exception leaves the loop from the variance step      *)
(* (lines 294-330) of the pass for group number count: the earlier passes  *)
(* are complete and the interrupted pass has appended to estimate_ only.   *)
InterruptedLoop(ct, level, vt, tb, nb, sd, count, x) ==
    HalfPass(FitLoop(ct, level, vt, tb, nb, sd, count - 1, x),
             ProductLimit(n_events(sd, group_labels(sd)[count]),
                          n_at_risk(sd, group_labels(sd)[count])))

----------------------------------------------------------------------------
(* The estimator *)

NoError == [kind |-> "none", option |-> "none", value |-> "none"]

\* raise ValueError(f"Invalid value for '<option>': {value}.")
InvalidValue(option, value) ==
    [kind |-> "ValueError", option |-> option, value |-> value]

(* The error of check_int(n_boot, minimum=1) for a value below the         *)
(* minimum.  check_int is handed the value and the minimum, not the name   *)
(* of the option it validates.                                             *)
CheckIntError(num) ==
    [kind |-> "check_int", option |-> "none", value |-> ToString(num)]

\* a setter that stores whatever it is given
AcceptsAnything(v) == TRUE

\* if var_type in self._var_types
VarTypeAccepted(v) == v \in VarTypes

\* if tie_break in self._tie_breaks
TieBreakAccepted(v) == v \in TieBreaks

\* check_int(n_boot, minimum=1)
NBootAccepted(n) == n >= 1

\* the error raised by __init__'s assignments, in the order it makes them
InitError(vt, tb, nb) ==
    IF ~VarTypeAccepted(vt) THEN InvalidValue("var_type", vt)
    ELSE IF ~TieBreakAccepted(tb) THEN InvalidValue("tie_break", tb)
    ELSE IF ~NBootAccepted(nb) THEN CheckIntError(nb)
    ELSE NoError

\* the record of a call: its outcome and the length of estimate_ before it
Called(op, error) == [op |-> op, error |-> error, before |-> Len(estimate_)]

Init ==
    /\ constructed = FALSE
    /\ conf_type = "none"
    /\ conf_level = NaN
    /\ var_type = "none"
    /\ tie_break = "none"
    /\ n_boot = 0
    /\ random_state = 0
    /\ data = <<>>
    /\ estimate_ = <<>>
    /\ estimate_var_ = <<>>
    /\ estimate_ci_lower_ = <<>>
    /\ estimate_ci_upper_ = <<>>
    /\ fitted = FALSE
    /\ fit_with = [complete |-> FALSE, rng |-> 0]
    /\ last = [op |-> "none", error |-> NoError, before |-> 0]

\* KaplanMeier(conf_type, conf_level, var_type, tie_break, n_boot, random_state)
Construct(ct, level, vt, tb, nb, seed) ==
    /\ ~constructed
    /\ last' = Called("init", InitError(vt, tb, nb))
    /\ IF InitError(vt, tb, nb) = NoError
       THEN /\ constructed' = TRUE
            /\ conf_type' = ct
            /\ conf_level' = level
            /\ var_type' = vt
            /\ tie_break' = tb
            /\ n_boot' = nb
            /\ random_state' = RngSeed(seed)
       ELSE UNCHANGED <<constructed, conf_type, conf_level, var_type,
                        tie_break, n_boot, random_state>>
    /\ UNCHANGED <<data, estimate_, estimate_var_, estimate_ci_lower_,
                   estimate_ci_upper_, fitted, fit_with>>

\* estimator.var_type = v
SetVarType(v) ==
    /\ constructed
    /\ IF VarTypeAccepted(v)
       THEN var_type' = v /\ last' = Called("set", NoError)
       ELSE /\ UNCHANGED var_type
            /\ last' = Called("set", InvalidValue("var_type", v))
    /\ UNCHANGED <<constructed, conf_type, conf_level, tie_break, n_boot,
                   random_state, data, estimate_, estimate_var_,
                   estimate_ci_lower_, estimate_ci_upper_, fitted, fit_with>>

\* estimator.tie_break = v
SetTieBreak(v) ==
    /\ constructed
    /\ IF TieBreakAccepted(v)
       THEN tie_break' = v /\ last' = Called("set", NoError)
       ELSE /\ UNCHANGED tie_break
            /\ last' = Called("set", InvalidValue("tie_break", v))
    /\ UNCHANGED <<constructed, conf_type, conf_level, var_type, n_boot,
                   random_state, data, estimate_, estimate_var_,
                   estimate_ci_lower_, estimate_ci_upper_, fitted, fit_with>>

\* estimator.n_boot = n
SetNBoot(n) ==
    /\ constructed
    /\ IF NBootAccepted(n)
       THEN n_boot' = n /\ last' = Called("set", NoError)
       ELSE /\ UNCHANGED n_boot
            /\ last' = Called("set", CheckIntError(n))
    /\ UNCHANGED <<constructed, conf_type, conf_level, var_type, tie_break,
                   random_state, data, estimate_, estimate_var_,
                   estimate_ci_lower_, estimate_ci_upper_, fitted, fit_with>>

\* estimator.random_state = seed: a generator freshly seeded
SetRandomState(seed) ==
    /\ constructed
    /\ random_state' = RngSeed(seed)
    /\ last' = Called("set", NoError)
    /\ UNCHANGED <<constructed, conf_type, conf_level, var_type, tie_break,
                   n_boot, data, estimate_, estimate_var_,
                   estimate_ci_lower_, estimate_ci_upper_, fitted, fit_with>>

\* the assignments fit makes to the lists and the generator
StoreLists(r) ==
    /\ estimate_' = r.survival
    /\ estimate_var_' = r.variance
    /\ estimate_ci_lower_' = r.lower
    /\ estimate_ci_upper_' = r.upper
    /\ random_state' = r.rng

RuntimeError == [kind |-> "RuntimeError", option |-> "none", value |-> "none"]

Interrupt == [kind |-> "Exception", option |-> "none", value |-> "none"]

(* estimator.fit(sd) running to its end; with a configuration the variance *)
(* branches do not handle it raises RuntimeError in the first pass.        *)
Fit(sd) ==
    /\ constructed
    /\ data' = sd
    /\ IF VarianceHandled(var_type, tie_break)
       THEN /\ StoreLists(FitLoop(conf_type, conf_level, var_type, tie_break,
                                  n_boot, sd, Len(group_labels(sd)),
                                  random_state))
            /\ fitted' = TRUE
            /\ fit_with' = [complete |-> TRUE, rng |-> random_state]
            /\ last' = Called("fit", NoError)
       ELSE /\ StoreLists(InterruptedLoop(conf_type, conf_level, var_type,
                                          tie_break, n_boot, sd, 1,
                                          random_state))
            /\ UNCHANGED fitted
            /\ fit_with' = [complete |-> FALSE, rng |-> random_state]
            /\ last' = Called("fit", RuntimeError)
    /\ UNCHANGED <<constructed, conf_type, conf_level, var_type, tie_break,
                   n_boot>>

(* The variance steps that call into numpy with np.float_ and allocate:    *)
(* line 316 (aalen-johansen, continuous) and line 426 (bootstrap, before   *)
(* the first draw).  np.float_ does not exist in NumPy 2, and the          *)
(* allocation of n_boot rows fails for a large n_boot.                     *)
CanRaise(vt, tb) ==
    vt = "bootstrap" \/ (vt = "aalen-johansen" /\ tb = "continuous")

(* estimator.fit(sd) left by an exception raised in the variance step of   *)
(* the pass for group number count.  fit has no handler: the assignments   *)
(* made up to that point stay.                                             *)
FitInterrupted(sd, count) ==
    /\ constructed
    /\ CanRaise(var_type, tie_break)
    /\ count \in 1..Len(group_labels(sd))
    /\ data' = sd
    /\ StoreLists(InterruptedLoop(conf_type, conf_level, var_type, tie_break,
                                  n_boot, sd, count, random_state))
    /\ fit_with' = [complete |-> FALSE, rng |-> random_state]
    /\ last' = Called("fit", Interrupt)
    /\ UNCHANGED <<constructed, conf_type, conf_level, var_type, tie_break,
                   n_boot, fitted>>

----------------------------------------------------------------------------
(* Specifications *)

ConfLevels == {<<19, 20>>, <<1, 2>>}

(* The constructor arguments that matter: tie_break is ignored unless      *)
(* var_type is "aalen-johansen", n_boot and random_state unless it is      *)
(* "bootstrap"; the ignored ones are left at "discrete", 1 and 0.          *)
Relevant(vt, tb, nb, seed) ==
    /\ vt # "aalen-johansen" => tb = "discrete"
    /\ vt # "bootstrap" => nb = 1 /\ seed = 0

ConstructValid(cts, levels) ==
    \E ct \in cts, level \in levels, vt \in VarTypes, tb \in TieBreaks,
       nb \in 1..MaxBoot, seed \in 0..MaxSeed :
        Relevant(vt, tb, nb, seed) /\ Construct(ct, level, vt, tb, nb, seed)

\* observations of the first group, and observations without late entry
FirstGroup == { o \in Observations : o.group = 1 }
Untruncated == { o \in Observations : o.entry = 0 }

FitData == DataOver(FirstGroup, MaxObs) \cup DataOver(Untruncated, MaxObs)

\* SpecFit: every configuration, one fit of every data set of FitData
FirstFit == ~fitted /\ \E sd \in FitData : Fit(sd)

NextFit == ConstructValid(ConfTypes, ConfLevels) \/ FirstFit

SpecFit == Init /\ [][NextFit]_vars

\* Spec: one estimator fitted again and again, its generator reseeded, and
\* fits left by an exception, over small data sets of events
RefitObs == { o \in Untruncated : o.status = 1 /\ o.time <= MaxRefitTime }
RefitData == DataOver(RefitObs, MaxRefitObs)

Reseed == \E seed \in 0..MaxSeed : SetRandomState(seed)
Refit == \E sd \in RefitData : Fit(sd)
Abort == \E sd \in RefitData : \E count \in 1..MaxGroups : FitInterrupted(sd, count)

Next ==
    \/ ConstructValid({"log-log"}, {<<19, 20>>})
    \/ Reseed
    \/ Refit
    \/ Abort

Spec == Init /\ [][Next]_vars

\* SpecConfig: construction and assignment with valid and invalid values,
\* and fits of one observation
VarTypeValues == VarTypes \cup {"bogus", "Greenwood"}
TieBreakValues == TieBreaks \cup {"bogus"}
NBootValues == -1..MaxBoot
ConfigData == DataOver(RefitObs, 1)

ConstructAny ==
    \E vt \in VarTypeValues, tb \in TieBreakValues, nb \in NBootValues :
        Construct("log-log", <<19, 20>>, vt, tb, nb, 0)

NextConfig ==
    \/ ConstructAny
    \/ \E v \in VarTypeValues : SetVarType(v)
    \/ \E v \in TieBreakValues : SetTieBreak(v)
    \/ \E n \in NBootValues : SetNBoot(n)
    \/ \E sd \in ConfigData : Fit(sd)

SpecConfig == Init /\ [][NextConfig]_vars

----------------------------------------------------------------------------
(* Claims *)

\* the last call was a fit that ran to its end
FitDone == last.op = "fit" /\ last.error = NoError

\* the groups of the stored data, by position
Groups == 1..Len(group_labels(data))

\* the risk table fit read for the group at position g
EventCounts(g) == n_events(data, group_labels(data)[g])
RiskCounts(g) == n_at_risk(data, group_labels(data)[g])

(* C1: every risk table fit reads has 0 <= d[i] <= y[i] and y[i] > 0, and  *)
(* the survival sequence fit stores for the group is non-increasing with   *)
(* every entry in [0,1].                                                   *)
C1_Monotone ==
    FitDone =>
        \A g \in Groups :
            /\ \A j \in 1..Len(EventCounts(g)) :
                  /\ 0 <= EventCounts(g)[j]
                  /\ EventCounts(g)[j] <= RiskCounts(g)[j]
                  /\ RiskCounts(g)[j] > 0
            /\ \A j \in 1..Len(estimate_[g]) :
                  /\ Leq(Zero, estimate_[g][j])
                  /\ Leq(estimate_[g][j], One)
                  /\ j > 1 => Leq(estimate_[g][j], estimate_[g][j - 1])

\* a fitted group whose survival sequence strictly decreases over three
\* event times, positive at the second
C1_Witness ==
    /\ FitDone
    /\ \E g \in Groups :
          /\ Len(estimate_[g]) = 3
          /\ Lt(estimate_[g][2], estimate_[g][1])
          /\ Lt(estimate_[g][3], estimate_[g][2])
          /\ Lt(Zero, estimate_[g][2])

(* C2: after fit, wherever the survival estimate is exactly 0 the          *)
(* variance, the lower bound and the upper bound are NaN, for every        *)
(* conf_type and var_type.                                                 *)
C2_ZeroMasked ==
    FitDone =>
        \A g \in Groups : \A j \in 1..Len(estimate_[g]) :
            Eq(estimate_[g][j], Zero) =>
                /\ IsNaN(estimate_var_[g][j])
                /\ IsNaN(estimate_ci_lower_[g][j])
                /\ IsNaN(estimate_ci_upper_[g][j])

\* the single-subject group (one event, d = [1], y = [1], S = [0]) fitted
\* with a configuration whose unmasked variance and bounds are numbers
C2_Witness ==
    /\ FitDone
    /\ conf_type = "linear" /\ var_type = "aalen-johansen"
    /\ Len(data) = 1
    /\ estimate_ = << <<Zero>> >>
    /\ estimate_var_ = << <<NaN>> >>
    /\ ~IsNaN(Mul(Square(Zero), Sigma2Discrete(<<1>>, <<1>>)[1]))

(* C3: after fit, for every transform, a lower bound that is defined lies  *)
(* in [0, S[j]] and an upper bound that is defined lies in [S[j], 1].      *)
C3_Containment ==
    FitDone =>
        \A g \in Groups : \A j \in 1..Len(estimate_[g]) :
            /\ ~IsNaN(estimate_ci_lower_[g][j]) =>
                  /\ Leq(Zero, estimate_ci_lower_[g][j])
                  /\ Leq(estimate_ci_lower_[g][j], estimate_[g][j])
            /\ ~IsNaN(estimate_ci_upper_[g][j]) =>
                  /\ Leq(estimate_[g][j], estimate_ci_upper_[g][j])
                  /\ Leq(estimate_ci_upper_[g][j], One)

\* an interval whose raw upper bound exceeded 1 and was cut to 1,
\* with a lower bound strictly between 0 and the estimate
C3_Witness ==
    /\ FitDone
    /\ \E g \in Groups : \E j \in 1..Len(estimate_[g]) :
          /\ estimate_ci_upper_[g][j] = One
          /\ Lt(estimate_[g][j], One)
          /\ Lt(Zero, estimate_ci_lower_[g][j])
          /\ Lt(estimate_ci_lower_[g][j], estimate_[g][j])

\* all observations are events of one group that entered at time 0
AllEventsAtZero(sd) ==
    \A i \in 1..Len(sd) :
        sd[i].status = 1 /\ sd[i].entry = 0 /\ sd[i].group = sd[1].group

\* number of observations with time > t
CountAfter(sd, t) == Cardinality({ i \in 1..Len(sd) : sd[i].time > t })

(* C4: for one group of n observations that are all events entered at 0,   *)
(* the survival estimate at each distinct event time t is                  *)
(* (number of observations with time > t) / n.                             *)
C4_EmpiricalSurvival ==
    (FitDone /\ AllEventsAtZero(data)) =>
        \A j \in 1..Len(estimate_[1]) :
            estimate_[1][j] =
                Rat(CountAfter(data, EventTimes(data)[j]), Len(data))

\* times [1,2,3], all events: S = [2/3, 1/3, 0]
C4_Witness ==
    /\ FitDone
    /\ AllEventsAtZero(data)
    /\ [i \in 1..Len(data) |-> data[i].time] = <<1, 2, 3>>
    /\ estimate_ = << << <<2, 3>>, <<1, 3>>, <<0, 1>> >> >>

\* the stored observations that carry the label of the group at position g
OwnObservations(g) ==
    SelectSeq(data, LAMBDA o : o.group = group_labels(data)[g])

\* the number of stored observations in the groups before position g
ObservationsBefore(g) ==
    Cardinality({ i \in 1..Len(data) : data[i].group < group_labels(data)[g] })

\* the four sequences fit stored for the group at position g
Stored(g) ==
    [survival |-> estimate_[g], variance |-> estimate_var_[g],
     lower |-> estimate_ci_lower_[g], upper |-> estimate_ci_upper_[g]]

\* the four sequences of a pass
Outputs(pass) ==
    [survival |-> pass.survival, variance |-> pass.variance,
     lower |-> pass.lower, upper |-> pass.upper]

\* what the configured estimator computes from the observations of the
\* group at position g alone, with its generator in state x
Alone(g, x) ==
    Outputs(GroupPass(conf_type, conf_level, var_type, tie_break, n_boot,
                      OwnObservations(g), 1, x))

\* an estimator that exists holds a value of each option's domain
ConfigValid ==
    constructed =>
        var_type \in VarTypes /\ tie_break \in TieBreaks /\ n_boot >= 1

\* a constructor call that failed left no estimator
NoEstimator == (last.op = "init" /\ last.error # NoError) => ~constructed

\* fit does not fail for the configuration
NotDeferred == last.op = "fit" => last.error = NoError

\* the last call was a construction or an assignment, and it failed
Rejected == last.op \in {"init", "set"} /\ last.error # NoError

(* C5 as stated: an invalid var_type, tie_break or n_boot is rejected when *)
(* it is given, by an error that names the option and the value; a failed  *)
(* construction leaves no estimator and fit never fails for it.            *)
C5_ErrorNamesOption ==
    /\ ConfigValid /\ NoEstimator /\ NotDeferred
    /\ Rejected =>
          /\ last.error.option \in {"var_type", "tie_break", "n_boot"}
          /\ last.error.value # "none"

(* C5 amended: an invalid var_type, tie_break or n_boot is rejected when   *)
(* it is given; for var_type and tie_break by a ValueError that names the  *)
(* option and the value, for n_boot by the error of the integer check,     *)
(* which is handed the value and the minimum and not the option's name; a  *)
(* failed construction leaves no estimator and fit never fails for it.     *)
C5_EagerValidation ==
    /\ ConfigValid /\ NoEstimator /\ NotDeferred
    /\ Rejected =>
          \/ /\ last.error.kind = "ValueError"
             /\ last.error.option = "var_type"
             /\ last.error.value \in VarTypeValues \ VarTypes
          \/ /\ last.error.kind = "ValueError"
             /\ last.error.option = "tie_break"
             /\ last.error.value \in TieBreakValues \ TieBreaks
          \/ /\ last.error.kind = "check_int"
             /\ last.error.option = "none"
             /\ last.error.value \in { ToString(n) : n \in -1..0 }

\* a fitted estimator whose n_boot was assigned 0: the assignment failed
\* and n_boot kept its value
C5_Witness ==
    /\ constructed /\ fitted
    /\ last.op = "set"
    /\ last.error = CheckIntError(0)
    /\ n_boot >= 1

(* C6 as stated, for two fits in a row on one estimator: a bootstrap fit   *)
(* that ran to its end, followed with the seed, n_boot and data unchanged  *)
(* by another fit that ran to its end, stores the same variance sequences. *)
(* Equal sequences have the same shape.                                    *)
C6_SameSeedSameVariance ==
    [][(/\ FitDone /\ FitDone'
        /\ var_type = "bootstrap"
        /\ data' = data)
       => estimate_var_' = estimate_var_]_vars

\* the lengths of the sequences of a list
Shape(list) == [g \in 1..Len(list) |-> Len(list[g])]

(* C7: after a fit that ran to its end, whatever calls came before it, the *)
(* fitted flag is true and each of the four output lists holds exactly one *)
(* sequence per group of the data of that fit, in the order of the group   *)
(* labels: the sequence at position g has one entry per event time of the  *)
(* group at position g, and the survival sequence is that group's.         *)
C7_RefitReplaces ==
    FitDone =>
        /\ fitted
        /\ Len(estimate_) = Len(group_labels(data))
        /\ Shape(estimate_) =
             [g \in Groups |-> Len(EventTimes(OwnObservations(g)))]
        /\ Shape(estimate_var_) = Shape(estimate_)
        /\ Shape(estimate_ci_lower_) = Shape(estimate_)
        /\ Shape(estimate_ci_upper_) = Shape(estimate_)
        /\ \A g \in Groups :
              estimate_[g] = CumProd([j \in 1..Len(EventCounts(g)) |->
                                Sub(One, Rat(EventCounts(g)[j], RiskCounts(g)[j]))])

\* a fit of one group on an estimator whose lists held two groups
C7_Witness ==
    /\ FitDone
    /\ last.before = 2
    /\ Len(group_labels(data)) = 1
    /\ Len(estimate_) = 1

(* C8 as stated: the four sequences fit stores for a group are what the    *)
(* estimator, as it was when fit began, computes from that group's         *)
(* observations alone, for every var_type.                                 *)
C8_GroupsIndependent ==
    FitDone => \A g \in Groups : Stored(g) = Alone(g, fit_with.rng)

(* C8 amended: the four sequences fit stores for a group are what the      *)
(* estimator computes from that group's observations alone; under          *)
(* bootstrap, with the generator advanced by the n_boot * n draws of each  *)
(* earlier group of n observations.  The survival sequence and, under      *)
(* greenwood and aalen-johansen, all four do not depend on other groups.   *)
C8_OwnSliceAndStream ==
    FitDone =>
        \A g \in Groups :
            /\ Stored(g) =
                 Alone(g, IF var_type = "bootstrap"
                          THEN RngSkip(fit_with.rng,
                                       n_boot * ObservationsBefore(g))
                          ELSE fit_with.rng)
            /\ Stored(g).survival = Alone(g, fit_with.rng).survival
            /\ var_type # "bootstrap" => Stored(g) = Alone(g, fit_with.rng)

\* a bootstrap fit of two groups whose second group has a defined variance
\* that differs from the one its observations give on a fresh stream
C8_Witness ==
    /\ FitDone
    /\ var_type = "bootstrap"
    /\ Len(group_labels(data)) = 2
    /\ \E j \in 1..Len(estimate_var_[2]) :
          /\ IsFinite(estimate_var_[2][j])
          /\ estimate_var_[2][j] # Alone(2, fit_with.rng).variance[j]

\* the variance sequence of the Aalen-Johansen estimate for group g under
\* the tie-breaking scheme tb, as fit stores it
AalenJohansenVar(tb, g) ==
    LET s2 == Sigma2("aalen-johansen", tb, EventCounts(g), RiskCounts(g))
    IN  MaskZero(estimate_[g],
                 [j \in 1..Len(estimate_[g]) |->
                     Mul(Square(estimate_[g][j]), s2[j])])

OtherTieBreak == IF tie_break = "discrete" THEN "continuous" ELSE "discrete"

NoTies(g) == \A j \in 1..Len(EventCounts(g)) : EventCounts(g)[j] = 1

(* C9: on a risk table with no ties the aalen-johansen variance sequence   *)
(* fit stores under the configured tie_break is the one the other          *)
(* tie_break gives; the two differ only when some d[i] > 1.                *)
C9_TieBreakAgree ==
    (FitDone /\ var_type = "aalen-johansen") =>
        \A g \in Groups :
            /\ NoTies(g) => estimate_var_[g] = AalenJohansenVar(OtherTieBreak, g)
            /\ estimate_var_[g] # AalenJohansenVar(OtherTieBreak, g) => ~NoTies(g)

\* a continuous-mode fit of a group with two untied event times and
\* defined, positive variances
C9_Witness ==
    /\ FitDone
    /\ var_type = "aalen-johansen" /\ tie_break = "continuous"
    /\ \E g \in Groups :
          /\ NoTies(g)
          /\ Len(estimate_var_[g]) >= 2
          /\ Lt(Zero, estimate_var_[g][1])
          /\ Lt(Zero, estimate_var_[g][2])

\* the four output lists hold one sequence per group of the stored data
ListsComplete ==
    /\ Len(estimate_) = Len(group_labels(data))
    /\ Len(estimate_var_) = Len(group_labels(data))
    /\ Len(estimate_ci_lower_) = Len(group_labels(data))
    /\ Len(estimate_ci_upper_) = Len(group_labels(data))

(* C10 as stated: the estimator is never left with the fitted flag true    *)
(* while its four output lists have unequal lengths or lack entries for    *)
(* groups of the data it stores, also after a fit call that raised.        *)
C10_NoPartialResults == fitted => ListsComplete

\* the last call was an assignment to var_type or tie_break that failed
AssignmentFailed ==
    /\ last.op = "set"
    /\ last.error.kind = "ValueError"
    /\ last.error.option \in {"var_type", "tie_break"}

(* C11: after every call on a constructed estimator the stored var_type is *)
(* one of greenwood, aalen-johansen, bootstrap and the stored tie_break    *)
(* one of discrete, continuous; an assignment of var_type or tie_break     *)
(* that fails leaves both stored values as they were; and no fit ends in   *)
(* the RuntimeError of the unrecognised-mode branches.                     *)
C11_ModesStayValid ==
    [][/\ constructed' => (var_type' \in VarTypes /\ tie_break' \in TieBreaks)
       /\ AssignmentFailed' => (var_type' = var_type /\ tie_break' = tie_break)
       /\ last'.op = "fit" => last'.error # RuntimeError]_vars

\* an aalen-johansen estimator, fitted, whose tie_break was assigned an
\* unknown value: the assignment failed and tie_break is still continuous
C11_Witness ==
    /\ constructed /\ fitted
    /\ AssignmentFailed
    /\ last.error = InvalidValue("tie_break", "bogus")
    /\ var_type = "aalen-johansen"
    /\ tie_break = "continuous"

\* the state of the generator when the pass for the group at position g
\* begins
PassStart(g) == RngSkip(fit_with.rng, n_boot * ObservationsBefore(g))

\* the observations the i-th resample of the group at position g draws
Resample(g, i) ==
    LET obs == OwnObservations(g)
        ind_boot == RngChoice(RngSkip(PassStart(g), (i - 1) * Len(obs)),
                              Len(obs), Len(obs))
    IN  [m \in 1..Len(obs) |-> obs[ind_boot[m]]]

\* the curve _km_var_boot keeps for that resample, after the forcing step
ResampleCurve(g, i) ==
    survival_boot(OwnObservations(g), EventTimes(OwnObservations(g)),
                  PassStart(g), i)

(* C12 as stated: in a bootstrap fit of data with entry <= time, every     *)
(* entry of every resample's survival curve over the group's event times   *)
(* is, after the forcing step, a number in [0,1], and is 0 wherever the    *)
(* resample's risk set is empty.                                           *)
C12_ResampleCurveDefined ==
    (FitDone /\ var_type = "bootstrap") =>
        \A g \in Groups : \A i \in 1..n_boot :
            \A j \in 1..Len(EventTimes(OwnObservations(g))) :
                /\ ~IsNaN(ResampleCurve(g, i)[j])
                /\ Leq(Zero, ResampleCurve(g, i)[j])
                /\ Leq(ResampleCurve(g, i)[j], One)
                /\ CountAtRisk(Resample(g, i),
                               EventTimes(OwnObservations(g))[j]) = 0
                      => ResampleCurve(g, i)[j] = Zero

====
